---- MODULE Spec2Model ----
(***************************************************************************)
(* Station uptime calculator (station_uptime.py): the parser               *)
(* parse_input_file, the calculator calculate_station_uptime with          *)
(* merge_intervals and calculate_total_time, and the driver main.          *)
(*                                                                         *)
(* Python integers are unbounded, so no arithmetic here wraps.  The two    *)
(* range limits of the parser (4294967295 and 18446744073709551615) do not *)
(* fit TLC's integers; IdMax and TimeMax stand for them, scaled down.      *)
(***************************************************************************)
EXTENDS Integers, Sequences, FiniteSets, TLC

VARIABLES
    argc,              \* len(sys.argv)
    file_ok,           \* whether open()/readlines() succeeds
    lines,             \* the lines of the file the loop has taken so far
    unread,            \* the lines after a failing line, which the loop never takes
    line_num,          \* enumerate(lines, 1): number of the last line taken
    current_section,   \* "none" | "stations" | "reports"
    stations,          \* parse_input_file: station_id -> list of charger ids
    charger_to_station,\* parse_input_file: charger_id -> station_id
    reports,           \* parse_input_file: list of <<charger, start, end, is_up>>
    error,             \* the exception in flight: [kind, line]; line 0 = no line
    parsed,            \* main: the value parse_input_file returned
    uptimes,           \* main: the value calculate_station_uptime returned
    to_print,          \* main: the rest of sorted(uptimes.keys())
    stdout,            \* the lines written to standard output
    exit_code,         \* -1 while running, else the process exit code
    pc,                \* position of the driver
    intervals,         \* merge_intervals: its argument
    merged             \* merge_intervals: its result

vars == <<argc, file_ok, lines, unread, line_num, current_section, stations,
          charger_to_station, reports, error, parsed, uptimes, to_print,
          stdout, exit_code, pc, intervals, merged>>

\* ------------------------------------------------------------------ bounds

\* Longest file the parser is given.
MaxLines == 5
\* Stand-in for the uint32 limit 4294967295 of station and charger ids.
IdMax == 3
\* Stand-in for the uint64 limit 18446744073709551615 of times.
TimeMax == 3
\* Longest report list handed directly to the calculator.
MaxReports == 2
\* Times of the reports handed directly to the calculator: 0..CalcMaxTime.
CalcMaxTime == 3
\* Longest interval list handed directly to merge_intervals.
MaxIntervals == 3
\* Endpoints of the intervals handed directly to merge_intervals.
MergeMaxTime == 4

\* ------------------------------------------------------------- small helpers

Max(a, b) == IF a >= b THEN a ELSE b

EmptyMap == <<>>

SeqRange(s) == {s[i] : i \in 1..Len(s)}

SetMin(S) == CHOOSE x \in S : \A y \in S : x <= y

SetMax(S) == CHOOSE x \in S : \A y \in S : x >= y

\* All sequences over S of length at most n.
SeqsUpTo(S, n) == UNION {[1..k -> S] : k \in 0..n}

\* ------------------------------------------------------------ merge_intervals

\* Python's tuple order on (start, end) pairs.
TupleLeq(a, b) == a[1] < b[1] \/ (a[1] = b[1] /\ a[2] <= b[2])

RECURSIVE InsertSorted(_, _)
InsertSorted(x, s) ==
    IF s = <<>> THEN <<x>>
    ELSE IF TupleLeq(x, Head(s)) THEN <<x>> \o s
    ELSE <<Head(s)>> \o InsertSorted(x, Tail(s))

\* sorted(intervals)
RECURSIVE sorted(_)
sorted(s) == IF s = <<>> THEN <<>> ELSE InsertSorted(Head(s), sorted(Tail(s)))

\* Mutant: '<' for '<=', so exactly adjacent intervals stay apart.
MergeStepStrict(acc, cur) ==
    LET last == acc[Len(acc)]
    IN  IF cur[1] < last[2]
        THEN [acc EXCEPT ![Len(acc)] = <<last[1], Max(last[2], cur[2])>>]
        ELSE Append(acc, cur)

\* Mutant: the extension forgets max(), so a contained interval shrinks the run.
MergeStepNoMax(acc, cur) ==
    LET last == acc[Len(acc)]
    IN  IF cur[1] <= last[2]
        THEN [acc EXCEPT ![Len(acc)] = <<last[1], cur[2]>>]
        ELSE Append(acc, cur)

\* Mutant: a new run is opened at last_end instead of at its own start.
MergeStepBridge(acc, cur) ==
    LET last == acc[Len(acc)]
    IN  IF cur[1] <= last[2]
        THEN [acc EXCEPT ![Len(acc)] = <<last[1], Max(last[2], cur[2])>>]
        ELSE Append(acc, <<last[2], cur[2]>>)

\* One iteration of the loop over sorted_intervals[1:].
MergeStep(acc, cur) ==
    LET last == acc[Len(acc)]
    IN  IF cur[1] <= last[2]
        THEN [acc EXCEPT ![Len(acc)] = <<last[1], Max(last[2], cur[2])>>]
        ELSE Append(acc, cur)

RECURSIVE MergeLoop(_, _)
MergeLoop(rest, acc) ==
    IF rest = <<>> THEN acc
    ELSE MergeLoop(Tail(rest), MergeStep(acc, Head(rest)))

merge_intervals(xs) ==
    IF xs = <<>> THEN <<>>
    ELSE LET sorted_intervals == sorted(xs)
         IN  MergeLoop(Tail(sorted_intervals), <<Head(sorted_intervals)>>)

\* sum(end - start for start, end in intervals)
RECURSIVE calculate_total_time(_)
calculate_total_time(xs) ==
    IF xs = <<>> THEN 0
    ELSE (Head(xs)[2] - Head(xs)[1]) + calculate_total_time(Tail(xs))

\* --------------------------------------------------- calculate_station_uptime

\* The dict built from stations.items(): the station whose list holds charger c.
\* (The parser leaves every charger in one list, so the choice is unique.)
BuildChargerToStation(sts) ==
    LET chargers == UNION {SeqRange(sts[sid]) : sid \in DOMAIN sts}
    IN  [c \in chargers |->
            CHOOSE sid \in DOMAIN sts : c \in SeqRange(sts[sid])]

\* Mutant: the reports are not grouped, every station gets all of them.
RECURSIVE StationReportsAll(_, _, _)
StationReportsAll(c2s, rs, sid) ==
    IF rs = <<>> THEN <<>>
    ELSE LET r == Head(rs)
         IN  <<<<r[2], r[3], r[4]>>>> \o StationReportsAll(c2s, Tail(rs), sid)

\* station_reports[sid]: the (start, end, is_up) triples of sid's chargers,
\* in report order.
RECURSIVE StationReports(_, _, _)
StationReports(c2s, rs, sid) ==
    IF rs = <<>> THEN <<>>
    ELSE LET r == Head(rs)
             rest == StationReports(c2s, Tail(rs), sid)
         IN  IF c2s[r[1]] = sid THEN <<<<r[2], r[3], r[4]>>>> \o rest
             ELSE rest

\* up_intervals: the (start, end) of the triples with is_up, in order.
RECURSIVE UpIntervals(_)
UpIntervals(rs) ==
    IF rs = <<>> THEN <<>>
    ELSE LET r == Head(rs)
         IN  IF r[3] THEN <<<<r[1], r[2]>>>> \o UpIntervals(Tail(rs))
             ELSE UpIntervals(Tail(rs))

\* Mutant: rounds to nearest instead of flooring.
UptimePercentRound(up_time, total_time) ==
    IF total_time = 0 THEN 0
    ELSE (up_time * 100 + total_time \div 2) \div total_time

UptimePercent(up_time, total_time) ==
    IF total_time = 0 THEN 0
    ELSE (up_time * 100) \div total_time

StationUptime(rs) ==
    IF rs = <<>> THEN 0
    ELSE LET min_start  == SetMin({rs[i][1] : i \in 1..Len(rs)})
             max_end    == SetMax({rs[i][2] : i \in 1..Len(rs)})
             total_time == max_end - min_start
             merged_up  == merge_intervals(UpIntervals(rs))
             up_time    == calculate_total_time(merged_up)
         IN  UptimePercent(up_time, total_time)

\* Mutant: a station without reports is skipped instead of being given 0.
calculate_station_uptime_skip(sts, rs) ==
    LET c2s == BuildChargerToStation(sts)
        reported == {sid \in DOMAIN sts : StationReports(c2s, rs, sid) # <<>>}
    IN  [sid \in reported |-> StationUptime(StationReports(c2s, rs, sid))]

calculate_station_uptime(sts, rs) ==
    LET c2s == BuildChargerToStation(sts)
    IN  [sid \in DOMAIN sts |-> StationUptime(StationReports(c2s, rs, sid))]

\* ------------------------------------------------------------ the input file

\* A token of line.split(): a decimal integer literal or any other word.
Num(n) == [kind |-> "num", num |-> n, str |-> ""]

Word(w) == [kind |-> "word", num |-> 0, str |-> w]

\* A line after line.strip(): empty, one of the two headers, or data tokens.
BlankLine == [text |-> "", parts |-> <<>>]

StationsHeader == [text |-> "[Stations]", parts |-> <<>>]

ReportsHeader == [text |-> "[Charger Availability Reports]", parts |-> <<>>]

Data(parts) == [text |-> "data", parts |-> parts]

Tru == Word("true")

\* The lines a file is made of.
LineAlphabet ==
    { BlankLine, StationsHeader, ReportsHeader,
      Data(<<Num(0), Num(1)>>),                   \* station 0: charger 1
      Data(<<Num(1), Num(2)>>),                   \* station 1: charger 2
      Data(<<Num(1)>>),                           \* station 1: no chargers
      Data(<<Num(2), Num(3), Num(3)>>),           \* station 2: charger 3 twice
      Data(<<Num(0), Num(2)>>),                   \* station 0: charger 2
      Data(<<Num(1), Num(0), Num(2), Tru>>),      \* charger 1 up [0,2)
      Data(<<Num(2), Num(1), Num(3), Word("FALSE")>>),  \* charger 2 down [1,3)
      Data(<<Num(1), Num(2), Num(2), Tru>>),      \* start = end
      Data(<<Num(1), Num(0), Num(1), Word("maybe")>>),  \* bad up flag
      Data(<<Num(1), Num(0), Num(TimeMax + 1), Tru>>),  \* end time too large
      Data(<<Num(1), Word("x"), Num(2), Tru>>),   \* start time not an integer
      Data(<<Num(IdMax + 1)>>) }                  \* id too large

\* str.lower() on the words the alphabet uses; digits are left as they are.
Lower(tok) ==
    IF tok.kind = "num" THEN "digits"
    ELSE CASE tok.str = "TRUE"  -> "true"
           [] tok.str = "True"  -> "true"
           [] tok.str = "FALSE" -> "false"
           [] tok.str = "False" -> "false"
           [] OTHER -> tok.str

\* ----------------------------------------------------------- parse_input_file

NoError == [kind |-> "none", line |-> 0]

\* Mutant: a charger id is compared with those of its own line only.
RECURSIVE ChargerLoopOwnLine(_, _, _, _, _)
ChargerLoopOwnLine(parts, i, station_id, c2s, charger_ids) ==
    IF i > Len(parts)
    THEN [err |-> "none", c2s |-> c2s, charger_ids |-> charger_ids]
    ELSE IF parts[i].kind # "num"
    THEN [err |-> "invalid_integer", c2s |-> c2s, charger_ids |-> charger_ids]
    ELSE LET charger_id == parts[i].num
         IN  IF charger_id < 0 \/ charger_id > IdMax
             THEN [err |-> "charger_out_of_range", c2s |-> c2s,
                   charger_ids |-> charger_ids]
             ELSE IF charger_id \in SeqRange(charger_ids)
             THEN [err |-> "duplicate_charger", c2s |-> c2s,
                   charger_ids |-> charger_ids]
             ELSE ChargerLoopOwnLine(parts, i + 1, station_id,
                                     (charger_id :> station_id) @@ c2s,
                                     Append(charger_ids, charger_id))

\* for i in range(1, len(parts)): the charger ids of a station line.
RECURSIVE ChargerLoop(_, _, _, _, _)
ChargerLoop(parts, i, station_id, c2s, charger_ids) ==
    IF i > Len(parts)
    THEN [err |-> "none", c2s |-> c2s, charger_ids |-> charger_ids]
    ELSE IF parts[i].kind # "num"
    THEN [err |-> "invalid_integer", c2s |-> c2s, charger_ids |-> charger_ids]
    ELSE LET charger_id == parts[i].num
         IN  IF charger_id < 0 \/ charger_id > IdMax
             THEN [err |-> "charger_out_of_range", c2s |-> c2s,
                   charger_ids |-> charger_ids]
             ELSE IF charger_id \in DOMAIN c2s
             THEN [err |-> "duplicate_charger", c2s |-> c2s,
                   charger_ids |-> charger_ids]
             ELSE ChargerLoop(parts, i + 1, station_id,
                              (charger_id :> station_id) @@ c2s,
                              Append(charger_ids, charger_id))

\* The body of 'if current_section == "stations"'.
StationLine(parts, sts, c2s) ==
    IF parts[1].kind # "num"
    THEN [err |-> "invalid_integer", stations |-> sts, c2s |-> c2s]
    ELSE LET station_id == parts[1].num
         IN  IF station_id < 0 \/ station_id > IdMax
             THEN [err |-> "station_out_of_range", stations |-> sts, c2s |-> c2s]
             ELSE LET loop == ChargerLoop(parts, 2, station_id, c2s, <<>>)
                  IN  IF loop.err # "none"
                      THEN [err |-> loop.err, stations |-> sts, c2s |-> loop.c2s]
                      ELSE IF station_id \in DOMAIN sts
                      THEN [err |-> "duplicate_station", stations |-> sts,
                            c2s |-> loop.c2s]
                      ELSE [err |-> "none",
                            stations |-> (station_id :> loop.charger_ids) @@ sts,
                            c2s |-> loop.c2s]

\* Mutant: the check that the charger is known is missing.
ReportLineAnyCharger(parts, c2s, rs) ==
    LET Fail(k) == [err |-> k, reports |-> rs]
    IN  IF Len(parts) # 4 THEN Fail("invalid_report_format")
        ELSE IF \E i \in 1..3 : parts[i].kind # "num" THEN Fail("invalid_integer")
        ELSE LET charger_id == parts[1].num
                 start_time == parts[2].num
                 end_time   == parts[3].num
                 up_str     == Lower(parts[4])
             IN  IF charger_id < 0 \/ charger_id > IdMax
                 THEN Fail("charger_out_of_range")
                 ELSE IF start_time < 0 \/ start_time > TimeMax
                 THEN Fail("start_out_of_range")
                 ELSE IF end_time < 0 \/ end_time > TimeMax
                 THEN Fail("end_out_of_range")
                 ELSE IF up_str \notin {"true", "false"}
                 THEN Fail("invalid_up_value")
                 ELSE IF start_time >= end_time
                 THEN Fail("invalid_time_range")
                 ELSE [err |-> "none",
                       reports |-> Append(rs, <<charger_id, start_time, end_time,
                                                up_str = "true">>)]

\* The body of 'elif current_section == "reports"'.
ReportLine(parts, c2s, rs) ==
    LET Fail(k) == [err |-> k, reports |-> rs]
    IN  IF Len(parts) # 4 THEN Fail("invalid_report_format")
        ELSE IF \E i \in 1..3 : parts[i].kind # "num" THEN Fail("invalid_integer")
        ELSE LET charger_id == parts[1].num
                 start_time == parts[2].num
                 end_time   == parts[3].num
                 up_str     == Lower(parts[4])
             IN  IF charger_id < 0 \/ charger_id > IdMax
                 THEN Fail("charger_out_of_range")
                 ELSE IF start_time < 0 \/ start_time > TimeMax
                 THEN Fail("start_out_of_range")
                 ELSE IF end_time < 0 \/ end_time > TimeMax
                 THEN Fail("end_out_of_range")
                 ELSE IF up_str \notin {"true", "false"}
                 THEN Fail("invalid_up_value")
                 ELSE IF start_time >= end_time
                 THEN Fail("invalid_time_range")
                 ELSE IF charger_id \notin DOMAIN c2s
                 THEN Fail("unknown_charger")
                 ELSE [err |-> "none",
                       reports |-> Append(rs, <<charger_id, start_time, end_time,
                                                up_str = "true">>)]

\* --------------------------------------------------------------- the driver

NotParsed == [ok |-> FALSE, stations |-> EmptyMap, reports |-> <<>>]

ErrorLine == [kind |-> "ERROR", id |-> 0, pct |-> 0]

\* f"{station_id} {uptimes[station_id]}"
StationOut(station_id, pct) == [kind |-> "station", id |-> station_id, pct |-> pct]

\* Mutant: the keys in descending order.
RECURSIVE SortedKeysDesc(_)
SortedKeysDesc(S) ==
    IF S = {} THEN <<>>
    ELSE LET m == SetMax(S) IN <<m>> \o SortedKeysDesc(S \ {m})

\* sorted(uptimes.keys())
RECURSIVE SortedKeys(_)
SortedKeys(S) ==
    IF S = {} THEN <<>>
    ELSE LET m == SetMin(S) IN <<m>> \o SortedKeys(S \ {m})

Init ==
    /\ argc \in {1, 2, 3}
    /\ file_ok \in BOOLEAN
    /\ lines = <<>>
    /\ unread = <<>>
    /\ line_num = 0
    /\ current_section = "none"
    /\ stations = EmptyMap
    /\ charger_to_station = EmptyMap
    /\ reports = <<>>
    /\ error = NoError
    /\ parsed = NotParsed
    /\ uptimes = EmptyMap
    /\ to_print = <<>>
    /\ stdout = <<>>
    /\ exit_code = -1
    /\ pc = "start"
    /\ intervals = <<>>
    /\ merged = <<>>

\* main, len(sys.argv) != 2: ERROR on stdout, usage on stderr, exit 1.
Usage ==
    /\ pc = "start"
    /\ argc # 2
    /\ stdout' = Append(stdout, ErrorLine)
    /\ exit_code' = 1
    /\ pc' = "done"
    /\ UNCHANGED <<argc, file_ok, lines, unread, line_num, current_section, stations,
                   charger_to_station, reports, error, parsed, uptimes,
                   to_print, intervals, merged>>

\* parse_input_file up to the loop: open the file and read its lines.
OpenFile ==
    /\ pc = "start"
    /\ argc = 2
    /\ IF file_ok
       THEN /\ pc' = "parse"
            /\ error' = error
       ELSE /\ pc' = "raised"
            /\ error' = [kind |-> "file_not_found", line |-> 0]
    /\ UNCHANGED <<argc, file_ok, lines, unread, line_num, current_section, stations,
                   charger_to_station, reports, parsed, uptimes, to_print,
                   stdout, exit_code, intervals, merged>>

\* The loop takes the next line of the file.
TakeLine(line) ==
    /\ pc = "parse"
    /\ Len(lines) < MaxLines
    /\ lines' = Append(lines, line)
    /\ line_num' = line_num + 1

\* What may follow a failing line in the file: nothing, one more line, or a
\* [Stations] header and one more line.
UnreadChoices ==
    {<<>>} \cup {<<l>> : l \in LineAlphabet}
           \cup {<<StationsHeader, l>> : l \in LineAlphabet}

\* Mutant: the line is numbered from 0.
RaiseZeroBased(kind) ==
    /\ error' = [kind |-> kind, line |-> line_num]
    /\ pc' = "raised"
    /\ \E rest \in UnreadChoices :
          /\ Len(lines') + Len(rest) <= MaxLines
          /\ unread' = rest

\* raise ValueError(... at line {line_num}); the rest of the file stays unread.
Raise(kind) ==
    /\ error' = [kind |-> kind, line |-> line_num']
    /\ pc' = "raised"
    /\ \E rest \in UnreadChoices :
          /\ Len(lines') + Len(rest) <= MaxLines
          /\ unread' = rest

\* 'if not line: continue'
SkipBlank ==
    /\ TakeLine(BlankLine)
    /\ UNCHANGED <<argc, file_ok, unread, current_section, stations,
                   charger_to_station, reports, error, parsed, uptimes,
                   to_print, stdout, exit_code, pc, intervals, merged>>

\* Mutant: only the first header of the file sets the section.
SectionHeaderOnce ==
    \E line \in {StationsHeader, ReportsHeader} :
        /\ TakeLine(line)
        /\ current_section' =
              IF current_section # "none" THEN current_section
              ELSE IF line = StationsHeader THEN "stations" ELSE "reports"
        /\ UNCHANGED <<argc, file_ok, unread, stations, charger_to_station,
                       reports, error, parsed, uptimes, to_print, stdout,
                       exit_code, pc, intervals, merged>>

\* A section header switches current_section.
SectionHeader ==
    \E line \in {StationsHeader, ReportsHeader} :
        /\ TakeLine(line)
        /\ current_section' =
              IF line = StationsHeader THEN "stations" ELSE "reports"
        /\ UNCHANGED <<argc, file_ok, unread, stations, charger_to_station,
                       reports, error, parsed, uptimes, to_print, stdout,
                       exit_code, pc, intervals, merged>>

IsData(line) == line.text = "data"

\* A data line while current_section == "stations".
ParseStationLine ==
    \E line \in LineAlphabet :
        /\ IsData(line)
        /\ current_section = "stations"
        /\ TakeLine(line)
        /\ LET r == StationLine(line.parts, stations, charger_to_station)
           IN  /\ stations' = r.stations
               /\ charger_to_station' = r.c2s
               /\ IF r.err = "none"
                  THEN UNCHANGED <<error, pc, unread>>
                  ELSE Raise(r.err)
        /\ UNCHANGED <<argc, file_ok, current_section, reports, parsed, uptimes,
                       to_print, stdout, exit_code, intervals, merged>>

\* A data line while current_section == "reports".
ParseReportLine ==
    \E line \in LineAlphabet :
        /\ IsData(line)
        /\ current_section = "reports"
        /\ TakeLine(line)
        /\ LET r == ReportLine(line.parts, charger_to_station, reports)
           IN  /\ reports' = r.reports
               /\ IF r.err = "none"
                  THEN UNCHANGED <<error, pc, unread>>
                  ELSE Raise(r.err)
        /\ UNCHANGED <<argc, file_ok, current_section, stations,
                       charger_to_station, parsed, uptimes, to_print, stdout,
                       exit_code, intervals, merged>>

\* A data line while current_section is None.
DataBeforeHeader ==
    \E line \in LineAlphabet :
        /\ IsData(line)
        /\ current_section = "none"
        /\ TakeLine(line)
        /\ Raise("data_before_header")
        /\ UNCHANGED <<argc, file_ok, current_section, stations,
                       charger_to_station, reports, parsed, uptimes, to_print,
                       stdout, exit_code, intervals, merged>>

\* Mutant: the check for an empty station mapping is missing.
ParseEndNoCheck ==
    /\ pc = "parse"
    /\ parsed' = [ok |-> TRUE, stations |-> stations, reports |-> reports]
    /\ pc' = "calc"
    /\ UNCHANGED <<argc, file_ok, lines, unread, line_num, current_section,
                   stations, charger_to_station, reports, error, uptimes,
                   to_print, stdout, exit_code, intervals, merged>>

\* After the last line: 'if not stations: raise', else return.
ParseEnd ==
    /\ pc = "parse"
    /\ IF DOMAIN stations = {}
       THEN /\ error' = [kind |-> "no_stations", line |-> 0]
            /\ pc' = "raised"
            /\ parsed' = parsed
       ELSE /\ parsed' = [ok |-> TRUE, stations |-> stations, reports |-> reports]
            /\ pc' = "calc"
            /\ error' = error
    /\ UNCHANGED <<argc, file_ok, lines, unread, line_num, current_section, stations,
                   charger_to_station, reports, uptimes, to_print, stdout,
                   exit_code, intervals, merged>>

\* uptimes = calculate_station_uptime(stations, reports)
Calculate ==
    /\ pc = "calc"
    /\ uptimes' = calculate_station_uptime(parsed.stations, parsed.reports)
    /\ to_print' = SortedKeys(DOMAIN uptimes')
    /\ pc' = "print"
    /\ UNCHANGED <<argc, file_ok, lines, unread, line_num, current_section, stations,
                   charger_to_station, reports, error, parsed, stdout,
                   exit_code, intervals, merged>>

\* One iteration of 'for station_id in sorted(uptimes.keys()): print(...)'.
PrintStation ==
    /\ pc = "print"
    /\ to_print # <<>>
    /\ stdout' = Append(stdout, StationOut(Head(to_print), uptimes[Head(to_print)]))
    /\ to_print' = Tail(to_print)
    /\ UNCHANGED <<argc, file_ok, lines, unread, line_num, current_section, stations,
                   charger_to_station, reports, error, parsed, uptimes,
                   exit_code, pc, intervals, merged>>

\* main returns after the last print: exit code 0.
ExitOk ==
    /\ pc = "print"
    /\ to_print = <<>>
    /\ exit_code' = 0
    /\ pc' = "done"
    /\ UNCHANGED <<argc, file_ok, lines, unread, line_num, current_section, stations,
                   charger_to_station, reports, error, parsed, uptimes,
                   to_print, stdout, intervals, merged>>

\* 'except ValueError': ERROR on stdout, the message on stderr, exit 1.
HandleError ==
    /\ pc = "raised"
    /\ stdout' = Append(stdout, ErrorLine)
    /\ exit_code' = 1
    /\ pc' = "done"
    /\ UNCHANGED <<argc, file_ok, lines, unread, line_num, current_section, stations,
                   charger_to_station, reports, error, parsed, uptimes,
                   to_print, intervals, merged>>

Next ==
    \/ Usage
    \/ OpenFile
    \/ SkipBlank
    \/ SectionHeader
    \/ ParseStationLine
    \/ ParseReportLine
    \/ DataBeforeHeader
    \/ ParseEnd
    \/ Calculate
    \/ PrintStation
    \/ ExitOk
    \/ HandleError

Spec == Init /\ [][Next]_vars

\* ----------------------------------- the calculator on parser-shaped input

\* Station mappings as parse_input_file returns them: ids unique, every
\* charger in one list, lists possibly empty.
CalcStations ==
    { (0 :> <<1, 2>>) @@ (1 :> <<3>>) @@ (2 :> <<>>),
      (3 :> <<2, 1>>) @@ (1 :> <<>>) }

CalcChargers(sts) == UNION {SeqRange(sts[sid]) : sid \in DOMAIN sts}

\* Reports as parse_input_file returns them: a known charger, start < end.
CalcReportSet(sts) ==
    { r \in CalcChargers(sts) \X (0..CalcMaxTime) \X (0..CalcMaxTime) \X BOOLEAN :
        r[2] < r[3] }

InitCalc ==
    /\ argc = 2
    /\ file_ok = TRUE
    /\ lines = <<>>
    /\ unread = <<>>
    /\ line_num = 0
    /\ current_section = "none"
    /\ stations = EmptyMap
    /\ charger_to_station = EmptyMap
    /\ reports = <<>>
    /\ error = NoError
    /\ \E sts \in CalcStations :
         \E rs \in SeqsUpTo(CalcReportSet(sts), MaxReports) :
            parsed = [ok |-> TRUE, stations |-> sts, reports |-> rs]
    /\ uptimes = EmptyMap
    /\ to_print = <<>>
    /\ stdout = <<>>
    /\ exit_code = -1
    /\ pc = "calc"
    /\ intervals = <<>>
    /\ merged = <<>>

NextCalc == Calculate

SpecCalc == InitCalc /\ [][NextCalc]_vars

\* ------------------------------------------ merge_intervals on any interval list

MergeIntervalSet ==
    { iv \in (0..MergeMaxTime) \X (0..MergeMaxTime) : iv[1] < iv[2] }

InitMerge ==
    /\ argc = 2
    /\ file_ok = TRUE
    /\ lines = <<>>
    /\ unread = <<>>
    /\ line_num = 0
    /\ current_section = "none"
    /\ stations = EmptyMap
    /\ charger_to_station = EmptyMap
    /\ reports = <<>>
    /\ error = NoError
    /\ parsed = NotParsed
    /\ uptimes = EmptyMap
    /\ to_print = <<>>
    /\ stdout = <<>>
    /\ exit_code = -1
    /\ pc = "merge"
    /\ intervals \in SeqsUpTo(MergeIntervalSet, MaxIntervals)
    /\ merged = <<>>

\* merged = merge_intervals(intervals)
Merge ==
    /\ pc = "merge"
    /\ merged' = merge_intervals(intervals)
    /\ pc' = "merged"
    /\ UNCHANGED <<argc, file_ok, lines, unread, line_num, current_section,
                   stations, charger_to_station, reports, error, parsed,
                   uptimes, to_print, stdout, exit_code, intervals>>

NextMerge == Merge

SpecMerge == InitMerge /\ [][NextMerge]_vars

\* ------------------------------------------------ properties: the calculator

\* What the calculator was given and has answered.
Calculated == pc = "print" /\ parsed.ok

\* The reports (by index) of the chargers of station sid.
OwnReports(sid) ==
    { i \in 1..Len(parsed.reports) :
        parsed.reports[i][1] \in SeqRange(parsed.stations[sid]) }

WindowStart(sid) == SetMin({parsed.reports[i][2] : i \in OwnReports(sid)})

WindowEnd(sid) == SetMax({parsed.reports[i][3] : i \in OwnReports(sid)})

\* T: the length of the station's observation window.
WindowLength(sid) == WindowEnd(sid) - WindowStart(sid)

\* The unit time slots [t, t+1) of the window that some up report covers.
UpSlots(sid) ==
    { t \in WindowStart(sid)..(WindowEnd(sid) - 1) :
        \E i \in OwnReports(sid) :
           /\ parsed.reports[i][4]
           /\ parsed.reports[i][2] <= t
           /\ t < parsed.reports[i][3] }

\* U: the time of the window covered by at least one up report.
UpTime(sid) == Cardinality(UpSlots(sid))

\* C1: for every station with at least one report, the uptime returned is
\* floor(100 * U / T), T the span from the earliest start to the latest end
\* of the station's reports and U the time in it covered by some up report;
\* time covered only by down reports or by none is down, time covered by an
\* up and a down report is up.
C1_UptimeIsFloorOfCoverage ==
    Calculated =>
        \A sid \in DOMAIN parsed.stations :
            OwnReports(sid) # {} =>
                /\ sid \in DOMAIN uptimes
                /\ WindowLength(sid) > 0
                /\ uptimes[sid] = (100 * UpTime(sid)) \div WindowLength(sid)

\* A station with an up and a down report of two chargers that overlap, with
\* part of the window covered by the down report alone.
C1_Witness ==
    /\ Calculated
    /\ \E sid \in DOMAIN parsed.stations :
          /\ \E i, j \in OwnReports(sid) :
                /\ parsed.reports[i][1] # parsed.reports[j][1]
                /\ parsed.reports[i][4]
                /\ ~parsed.reports[j][4]
                /\ parsed.reports[i][2] < parsed.reports[j][2]
                /\ parsed.reports[j][2] < parsed.reports[i][3]
                /\ parsed.reports[i][3] < parsed.reports[j][3]
          /\ uptimes[sid] = 66

\* C2: every uptime returned is an integer p with 0 <= p <= 100 that never
\* rounds up: p * T <= 100 * U < (p + 1) * T.
C2_UptimeInRangeAndFloored ==
    Calculated =>
        \A sid \in DOMAIN uptimes :
            /\ uptimes[sid] \in 0..100
            /\ (sid \in DOMAIN parsed.stations /\ OwnReports(sid) # {}) =>
                  /\ uptimes[sid] * WindowLength(sid) <= 100 * UpTime(sid)
                  /\ 100 * UpTime(sid) < (uptimes[sid] + 1) * WindowLength(sid)

\* A station whose exact percentage is not an integer and lies above the
\* half: the remainder is dropped.
C2_Witness ==
    /\ Calculated
    /\ \E sid \in DOMAIN uptimes :
          /\ OwnReports(sid) # {}
          /\ (100 * UpTime(sid)) % WindowLength(sid) * 2 > WindowLength(sid)
          /\ uptimes[sid] * WindowLength(sid) < 100 * UpTime(sid)

\* C3: the result has exactly one entry per declared station and no other
\* key, and a station none of whose chargers is reported (one without
\* chargers included) has uptime 0.
C3_OneEntryPerStation ==
    Calculated =>
        /\ DOMAIN uptimes = DOMAIN parsed.stations
        /\ \A sid \in DOMAIN parsed.stations :
              OwnReports(sid) = {} => uptimes[sid] = 0

\* A station without chargers and a station whose chargers are not reported,
\* next to a station that is up all of its window.
C3_Witness ==
    /\ Calculated
    /\ \E a, b, c \in DOMAIN uptimes :
          /\ parsed.stations[a] = <<>>
          /\ parsed.stations[b] # <<>>
          /\ OwnReports(b) = {}
          /\ uptimes[a] = 0
          /\ uptimes[b] = 0
          /\ uptimes[c] = 100

\* ------------------------------------------------ properties: merge_intervals

Merged == pc = "merged"

\* The unit time slots [t, t+1) that the intervals of xs cover.
Slots(xs) ==
    { t \in 0..MergeMaxTime : \E i \in 1..Len(xs) : xs[i][1] <= t /\ t < xs[i][2] }

\* C4: for every list of intervals, in any order, merge_intervals returns the
\* canonical disjoint form of their union: sorted by start, consecutive
\* output intervals strictly apart (end < next start), and covering exactly
\* the points, hence the total length, of the union of the inputs.
C4_MergeIsCanonicalUnion ==
    Merged =>
        /\ \A i \in 1..Len(merged) : merged[i][1] < merged[i][2]
        /\ \A i \in 1..(Len(merged) - 1) :
              /\ merged[i][1] < merged[i + 1][1]
              /\ merged[i][2] < merged[i + 1][1]
        /\ Slots(merged) = Slots(intervals)
        /\ calculate_total_time(merged) = Cardinality(Slots(intervals))
        /\ (intervals = <<>>) = (merged = <<>>)

\* An unsorted input in which one pair overlaps or contains and another is
\* exactly adjacent, merged into fewer intervals with a gap left between two.
C4_Witness ==
    /\ Merged
    /\ Len(merged) = 2
    /\ Len(intervals) > 2
    /\ \E i \in 1..(Len(intervals) - 1) : intervals[i + 1][1] < intervals[i][1]
    /\ \E i, j \in 1..Len(intervals) : intervals[i][2] = intervals[j][1]

\* C5: merge_intervals is idempotent: merging its own result changes nothing.
C5_MergeIdempotent ==
    Merged => merge_intervals(merged) = merged

\* A result of several intervals that is shorter than the input it came from.
C5_Witness ==
    /\ Merged
    /\ Len(merged) > 1
    /\ Len(merged) < Len(intervals)
    /\ merge_intervals(merged) = merged

\* ------------------------------------------- properties: the file as written

\* The whole file: the lines taken and the lines left unread.
File == lines \o unread

\* The section in force at line i of file f: that of the last header before it.
HeadersBefore(f, i) ==
    { j \in 1..(i - 1) : f[j] \in {StationsHeader, ReportsHeader} }

SectionAt(f, i) ==
    IF HeadersBefore(f, i) = {} THEN "none"
    ELSE IF f[SetMax(HeadersBefore(f, i))] = StationsHeader THEN "stations"
    ELSE "reports"

IsStationLineAt(f, i) == IsData(f[i]) /\ SectionAt(f, i) = "stations"

IsReportLineAt(f, i) == IsData(f[i]) /\ SectionAt(f, i) = "reports"

StationLinesOf(f) == { i \in 1..Len(f) : IsStationLineAt(f, i) }

ReportLinesOf(f) == { i \in 1..Len(f) : IsReportLineAt(f, i) }

IsNum(tok) == tok.kind = "num"

\* Station line j of f names station id s.
NamesStation(f, j, s) ==
    /\ IsStationLineAt(f, j)
    /\ IsNum(f[j].parts[1])
    /\ f[j].parts[1].num = s

\* Station line j of f lists charger c at token k.
ListsChargerAt(f, j, k, c) ==
    /\ IsStationLineAt(f, j)
    /\ k \in 2..Len(f[j].parts)
    /\ IsNum(f[j].parts[k])
    /\ f[j].parts[k].num = c

DeclaresCharger(f, j, c) == \E k \in 2..Len(f[j].parts) : ListsChargerAt(f, j, k, c)

\* The parser has returned normally.
ParseSucceeded == parsed.ok

\* The parser has raised.
ParseFailed == pc \in {"raised", "done"} /\ error.kind # "none"

\* The last line taken is the one the parser raised at.
RejectedAtLastLine ==
    /\ ParseFailed
    /\ ~ParseSucceeded
    /\ error.line = Len(lines)
    /\ Len(lines) >= 1

DuplicateStationIn(f) ==
    \E i, j \in StationLinesOf(f) : \E s \in 0..IdMax :
        i < j /\ NamesStation(f, i, s) /\ NamesStation(f, j, s)

DuplicateChargerIn(f) ==
    \E i, j \in StationLinesOf(f) : \E c \in 0..IdMax :
        \E k \in 2..Len(f[i].parts), l \in 2..Len(f[j].parts) :
            /\ <<i, k>> # <<j, l>>
            /\ ListsChargerAt(f, i, k, c)
            /\ ListsChargerAt(f, j, l, c)

\* The station lists that hold charger c.
OwnersOf(sts, c) == { s \in DOMAIN sts : c \in SeqRange(sts[s]) }

\* C6: an input in which a station id is on two station lines, or a charger
\* id occurs twice among the station lines (on one line, under two stations
\* or in two [Stations] sections) is rejected; so when the parse succeeds
\* every charger belongs to exactly one station and there is one entry per
\* distinct station id.
C6_DuplicateIdsRejected ==
    /\ (DuplicateStationIn(lines) \/ DuplicateChargerIn(lines)) => RejectedAtLastLine
    /\ ParseSucceeded =>
          /\ DOMAIN parsed.stations =
                { s \in 0..IdMax : \E j \in StationLinesOf(lines) : NamesStation(lines, j, s) }
          /\ Cardinality(DOMAIN parsed.stations) = Cardinality(StationLinesOf(lines))
          /\ \A j \in StationLinesOf(lines) :
                /\ \A k \in 1..Len(lines[j].parts) : IsNum(lines[j].parts[k])
                /\ parsed.stations[lines[j].parts[1].num] =
                      [k \in 1..(Len(lines[j].parts) - 1) |-> lines[j].parts[k + 1].num]
          /\ \A s \in DOMAIN parsed.stations :
                \A k, l \in 1..Len(parsed.stations[s]) :
                    parsed.stations[s][k] = parsed.stations[s][l] => k = l
          /\ \A c \in 0..IdMax : Cardinality(OwnersOf(parsed.stations, c)) <= 1

\* A charger declared in one [Stations] section and again, under another
\* station, in a [Stations] section re-opened after a reports section: the
\* second declaration is rejected as a duplicate charger.
C6_Witness ==
    /\ error.kind = "duplicate_charger"
    /\ RejectedAtLastLine
    /\ \E i, h \in 1..Len(lines) : \E c \in 0..IdMax :
          /\ i < h
          /\ h < Len(lines)
          /\ lines[h] = ReportsHeader
          /\ DeclaresCharger(lines, i, c)
          /\ DeclaresCharger(lines, Len(lines), c)
          /\ lines[i].parts[1] # lines[Len(lines)].parts[1]

\* Line i of the lines taken went through without an exception.
Accepted(i) == i \in 1..Len(lines) /\ ~(ParseFailed /\ error.line = i)

\* Some station line before line i of f declares charger c.
DeclaredBefore(f, i, c) == \E j \in 1..(i - 1) : DeclaresCharger(f, j, c)

\* Report line i of f names a charger that no earlier station line declares.
UndeclaredChargerAt(f, i) ==
    /\ IsReportLineAt(f, i)
    /\ IsNum(f[i].parts[1])
    /\ ~DeclaredBefore(f, i, f[i].parts[1].num)

\* Four fields: three integers in range and a true/false flag.
ReportSyntaxOk(parts) ==
    /\ Len(parts) = 4
    /\ \A k \in 1..3 : IsNum(parts[k])
    /\ parts[1].num \in 0..IdMax
    /\ parts[2].num \in 0..TimeMax
    /\ parts[3].num \in 0..TimeMax
    /\ Lower(parts[4]) \in {"true", "false"}

\* Every returned report names a charger of a returned station and has
\* start < end.
ReturnedReportsValid ==
    ParseSucceeded =>
        \A i \in 1..Len(parsed.reports) :
            /\ OwnersOf(parsed.stations, parsed.reports[i][1]) # {}
            /\ parsed.reports[i][2] < parsed.reports[i][3]

\* C7 as written: a report line is accepted only if an earlier station line
\* declares its charger, and a report whose charger is declared only later
\* or never fails with the unknown-charger error.
C7_AsWritten ==
    /\ \A i \in ReportLinesOf(lines) :
          Accepted(i) => DeclaredBefore(lines, i, lines[i].parts[1].num)
    /\ \A i \in ReportLinesOf(lines) :
          (ReportSyntaxOk(lines[i].parts) /\ UndeclaredChargerAt(lines, i)) =>
              (RejectedAtLastLine /\ error.line = i /\ error.kind = "unknown_charger")
    /\ ReturnedReportsValid

\* C7, amended: a report line is accepted only if an earlier station line
\* declares its charger; a report whose charger is declared only later or
\* never is rejected at its line, with the unknown-charger error when the
\* line is otherwise valid (four fields, integers in range, a true/false
\* flag, start < end) and with the error of the earlier check otherwise;
\* when the parse succeeds every returned report names a charger of a
\* returned station and has start < end.
C7_ReportNeedsEarlierDeclaration ==
    /\ \A i \in ReportLinesOf(lines) :
          Accepted(i) =>
              /\ IsNum(lines[i].parts[1])
              /\ DeclaredBefore(lines, i, lines[i].parts[1].num)
    /\ \A i \in ReportLinesOf(lines) :
          UndeclaredChargerAt(lines, i) =>
              /\ RejectedAtLastLine
              /\ error.line = i
              /\ (ReportSyntaxOk(lines[i].parts)
                    /\ lines[i].parts[2].num < lines[i].parts[3].num)
                 => error.kind = "unknown_charger"
              /\ (ReportSyntaxOk(lines[i].parts)
                    /\ lines[i].parts[2].num >= lines[i].parts[3].num)
                 => error.kind = "invalid_time_range"
    /\ ReturnedReportsValid

\* An otherwise valid report is rejected as naming an unknown charger, and
\* the file declares that charger only in a [Stations] section after it.
C7_Witness ==
    /\ error.kind = "unknown_charger"
    /\ RejectedAtLastLine
    /\ UndeclaredChargerAt(File, Len(lines))
    /\ \E j \in (Len(lines) + 1)..Len(File) :
          DeclaresCharger(File, j, lines[Len(lines)].parts[1].num)

\* Line i of f breaks a rule of the format, given the lines before it.
ViolatesStationRule(f, i) ==
    LET parts == f[i].parts
    IN  \/ \E k \in 1..Len(parts) : ~IsNum(parts[k])
        \/ \E k \in 1..Len(parts) : parts[k].num \notin 0..IdMax
        \/ \E j \in 1..(i - 1) : NamesStation(f, j, parts[1].num)
        \/ \E k \in 2..Len(parts) : DeclaredBefore(f, i, parts[k].num)
        \/ \E k, l \in 2..Len(parts) : k # l /\ parts[k].num = parts[l].num

ViolatesReportRule(f, i) ==
    LET parts == f[i].parts
    IN  \/ ~ReportSyntaxOk(parts)
        \/ parts[2].num >= parts[3].num
        \/ ~DeclaredBefore(f, i, parts[1].num)

Violates(f, i) ==
    /\ IsData(f[i])
    /\ \/ SectionAt(f, i) = "none"
       \/ SectionAt(f, i) = "stations" /\ ViolatesStationRule(f, i)
       \/ SectionAt(f, i) = "reports" /\ ViolatesReportRule(f, i)

\* Nothing has been handed back to the driver or printed for a station.
NothingReturned ==
    /\ parsed = NotParsed
    /\ uptimes = EmptyMap
    /\ \A i \in 1..Len(stdout) : stdout[i].kind # "station"

\* The error in flight was raised at a line of the file.
LineError == ParseFailed /\ error.kind \notin {"file_not_found", "no_stations"}

\* The error names the earliest violating line, which is the last line taken.
FailsAtEarliestViolation ==
    /\ error.line >= 1
    /\ error.line = Len(lines)
    /\ line_num = error.line
    /\ Violates(lines, error.line)
    /\ \A i \in 1..(error.line - 1) : ~Violates(lines, i)
    /\ NothingReturned

\* C8 as written: whenever the parse of a readable file fails, the error
\* carries the 1-based number of the earliest violating line, no later line
\* is examined and nothing is returned.
C8_AsWritten ==
    (ParseFailed /\ file_ok) => FailsAtEarliestViolation

\* C8, amended: whenever the parse of a readable file fails at a line, the
\* error carries the 1-based number of the earliest violating line, no later
\* line is examined and nothing is returned; the failure for a file that
\* declares no station is raised after the last line, when no line violates
\* a rule, and carries no line number (nothing is returned there either).
\* No violating line is passed over.
C8_FailFastAtEarliestLine ==
    /\ LineError => FailsAtEarliestViolation
    /\ (ParseFailed /\ error.kind = "no_stations") =>
          /\ error.line = 0
          /\ unread = <<>>
          /\ line_num = Len(lines)
          /\ \A i \in 1..Len(lines) : ~Violates(lines, i)
          /\ NothingReturned
    /\ \A i \in 1..Len(lines) :
          Violates(lines, i) => (LineError /\ error.line = i)

\* A parse that failed at a line after taking valid lines, with a line left
\* unread behind it that would itself violate a rule.
C8_Witness ==
    /\ LineError
    /\ pc = "done"
    /\ error.line >= 3
    /\ unread # <<>>
    /\ Violates(File, Len(lines) + 1)
    /\ \E i \in 1..(error.line - 1) : IsData(lines[i])

\* The parser is over: it has returned or raised.
ParseOver == pc \in {"raised", "calc", "print", "done"} /\ argc = 2

\* The station ids that the station lines taken without an exception declare.
DeclaredStations ==
    { s \in 0..IdMax :
        \E j \in StationLinesOf(lines) : Accepted(j) /\ NamesStation(lines, j, s) }

\* C9: parse_input_file returns only if at least one station was declared;
\* every input that declares no station (an empty file, headers only, an
\* empty [Stations] section, a reports section only) ends in a parse error,
\* even when each of its lines is well-formed.
C9_NoStationsIsAnError ==
    /\ ParseSucceeded =>
          /\ DOMAIN parsed.stations # {}
          /\ DeclaredStations = DOMAIN parsed.stations
    /\ (ParseOver /\ DeclaredStations = {}) =>
          /\ ParseFailed
          /\ ~ParseSucceeded
          /\ NothingReturned
    /\ (pc = "done" /\ argc = 2 /\ DeclaredStations = {}) =>
          /\ exit_code = 1
          /\ stdout = <<ErrorLine>>

\* A file of both headers and a blank line, no line of which breaks a rule,
\* ends in the no-stations error.
C9_Witness ==
    /\ error.kind = "no_stations"
    /\ pc = "done"
    /\ \E i, j, k \in 1..Len(lines) :
          /\ lines[i] = StationsHeader
          /\ lines[j] = ReportsHeader
          /\ lines[k] = BlankLine
    /\ \A i \in 1..Len(lines) : ~Violates(lines, i)

IsStationOut(i) == stdout[i].kind = "station"

\* C10: in every run standard output is either, on success with exit code
\* 0, exactly one line "<stationID> <uptimePercent>" per declared station in
\* strictly ascending order of station id, or, on any failure with exit code
\* 1, exactly the single line ERROR; no station line is printed before both
\* parsing and computation are complete, so station lines and ERROR never
\* appear together.
C10_OutputIsStationsOrError ==
    /\ (pc = "done") = (exit_code \in {0, 1})
    /\ (pc # "done") => exit_code = -1
    /\ (pc = "done" /\ exit_code = 0) =>
          /\ argc = 2
          /\ error = NoError
          /\ ParseSucceeded
          /\ DOMAIN uptimes = DeclaredStations
          /\ Len(stdout) = Cardinality(DeclaredStations)
          /\ \A i \in 1..Len(stdout) :
                /\ IsStationOut(i)
                /\ stdout[i].id \in DeclaredStations
                /\ stdout[i].pct = uptimes[stdout[i].id]
          /\ \A i \in 1..(Len(stdout) - 1) : stdout[i].id < stdout[i + 1].id
    /\ (pc = "done" /\ exit_code = 1) =>
          /\ stdout = <<ErrorLine>>
          /\ argc # 2 \/ error.kind # "none"
    /\ (pc = "done" /\ (argc # 2 \/ error.kind # "none")) => exit_code = 1
    /\ (\E i \in 1..Len(stdout) : IsStationOut(i)) =>
          /\ pc \in {"print", "done"}
          /\ ParseSucceeded
          /\ DOMAIN uptimes = DOMAIN parsed.stations
          /\ uptimes = calculate_station_uptime(parsed.stations, parsed.reports)
          /\ \A i \in 1..Len(stdout) : IsStationOut(i)
    /\ (pc # "done") => \A i \in 1..Len(stdout) : IsStationOut(i)

\* A successful run over a file that declares its stations in descending
\* order of id and reports one of them as up.
C10_Witness ==
    /\ pc = "done"
    /\ exit_code = 0
    /\ Len(stdout) >= 2
    /\ \E i, j \in StationLinesOf(lines) :
          i < j /\ lines[i].parts[1].num > lines[j].parts[1].num
    /\ \E i \in 1..Len(stdout) : stdout[i].pct = 100

\* ------------------------------------- properties: independence of stations

\* The reports of rs whose charger is in the list cs, in order.
RECURSIVE ReportsOf(_, _)
ReportsOf(rs, cs) ==
    IF rs = <<>> THEN <<>>
    ELSE IF Head(rs)[1] \in SeqRange(cs) THEN <<Head(rs)>> \o ReportsOf(Tail(rs), cs)
    ELSE ReportsOf(Tail(rs), cs)

\* The reports of rs whose charger is not in the list cs, in order.
RECURSIVE ReportsNotOf(_, _)
ReportsNotOf(rs, cs) ==
    IF rs = <<>> THEN <<>>
    ELSE IF Head(rs)[1] \notin SeqRange(cs) THEN <<Head(rs)>> \o ReportsNotOf(Tail(rs), cs)
    ELSE ReportsNotOf(Tail(rs), cs)

\* The station mapping sts without station t.
WithoutStation(sts, t) == [s \in (DOMAIN sts) \ {t} |-> sts[s]]

\* C11: the uptime of station s depends only on the reports of s's own
\* chargers: it is the value the calculator gives for s alone with its own
\* reports (so any two inputs that agree on s's charger list and on the
\* reports of s's chargers agree on s), and removing another station with
\* its reports leaves it unchanged.
C11_StationsIndependent ==
    Calculated =>
        \A sid \in DOMAIN parsed.stations :
            LET cs    == parsed.stations[sid]
                alone == sid :> cs
                own   == ReportsOf(parsed.reports, cs)
            IN  /\ sid \in DOMAIN uptimes
                /\ uptimes[sid] = calculate_station_uptime(alone, own)[sid]
                /\ \A t \in (DOMAIN parsed.stations) \ {sid} :
                      uptimes[sid] =
                         calculate_station_uptime(
                            WithoutStation(parsed.stations, t),
                            ReportsNotOf(parsed.reports, parsed.stations[t]))[sid]

\* Two stations with reports and different uptimes, where the reports of the
\* one reach outside the window of the other.
C11_Witness ==
    /\ Calculated
    /\ \E a, b \in DOMAIN parsed.stations :
          /\ a # b
          /\ OwnReports(a) # {}
          /\ OwnReports(b) # {}
          /\ uptimes[a] = 100
          /\ uptimes[b] = 0
          /\ WindowStart(b) < WindowStart(a)

\* ------------------------------------------- properties: section switching

\* The report tuple that an accepted report line stands for.
ReportOfLine(line) ==
    <<line.parts[1].num, line.parts[2].num, line.parts[3].num,
      Lower(line.parts[4]) = "true">>

\* The reports of the report lines among the first n lines taken that went
\* through, in file order.
RECURSIVE ExpectedReports(_)
ExpectedReports(n) ==
    IF n = 0 THEN <<>>
    ELSE IF IsReportLineAt(lines, n) /\ Accepted(n)
    THEN Append(ExpectedReports(n - 1), ReportOfLine(lines[n]))
    ELSE ExpectedReports(n - 1)

\* The chargers that the station lines taken without an exception declare.
DeclaredChargers ==
    { c \in 0..IdMax :
        \E j \in StationLinesOf(lines) : Accepted(j) /\ DeclaresCharger(lines, j, c) }

\* C12: a header switches the section for all the lines up to the next
\* header, any number of times and in either order: every data line is read
\* as the most recent header says, a data line with no header before it is an
\* error, and the station lines of a [Stations] section re-opened after a
\* reports section are accepted into the same station mapping and charger
\* registry as the earlier ones.
C12_HeadersSwitchSection ==
    /\ current_section = SectionAt(lines, Len(lines) + 1)
    /\ \A i \in 1..Len(lines) :
          (IsData(lines[i]) /\ SectionAt(lines, i) = "none") =>
              /\ RejectedAtLastLine
              /\ error.line = i
              /\ error.kind = "data_before_header"
    /\ ParseFailed => (error.kind = "data_before_header") =
                         (error.line >= 1 /\ SectionAt(lines, error.line) = "none")
    /\ DOMAIN stations = DeclaredStations
    /\ \A j \in StationLinesOf(lines) :
          Accepted(j) =>
              /\ stations[lines[j].parts[1].num] =
                    [k \in 1..(Len(lines[j].parts) - 1) |-> lines[j].parts[k + 1].num]
              /\ \A k \in 2..Len(lines[j].parts) :
                    /\ lines[j].parts[k].num \in DOMAIN charger_to_station
                    /\ charger_to_station[lines[j].parts[k].num] = lines[j].parts[1].num
    /\ ~ParseFailed => DOMAIN charger_to_station = DeclaredChargers
    /\ reports = ExpectedReports(Len(lines))
    /\ ParseSucceeded =>
          /\ parsed.stations = stations
          /\ parsed.reports = reports

\* A file that opens [Stations], declares a station, switches to the
\* reports section, re-opens [Stations] and declares a second station: the
\* parse succeeds and both stations and both chargers are in the result.
C12_Witness ==
    /\ ParseSucceeded
    /\ \E i, h, j \in 1..Len(lines) :
          /\ i < h
          /\ h < j
          /\ IsStationLineAt(lines, i)
          /\ lines[h] = ReportsHeader
          /\ IsStationLineAt(lines, j)
          /\ lines[i].parts[1].num \in DOMAIN parsed.stations
          /\ lines[j].parts[1].num \in DOMAIN parsed.stations
          /\ Len(lines[i].parts) > 1
          /\ Len(lines[j].parts) > 1
          /\ charger_to_station[lines[i].parts[2].num] = lines[i].parts[1].num
          /\ charger_to_station[lines[j].parts[2].num] = lines[j].parts[1].num

====
